---- MODULE Spec2Model ----
(***************************************************************************)
(* Model of immichsync.py: a script that groups the assets of a photo      *)
(* server into bins (by folder or by library), and for each bin creates,   *)
(* updates or skips an album, keeping a bin-key -> album-id table in a     *)
(* JSON file between runs.                                                 *)
(*                                                                         *)
(* Strings that the script takes apart (path components, album names) are  *)
(* sequences of one-character strings; a path is the sequence of its       *)
(* components below the root "/", so the root is << >>.  Identifiers that  *)
(* the script only compares (library ids, asset ids, album ids) are opaque.*)
(***************************************************************************)
EXTENDS Naturals, Sequences, FiniteSets, TLC

\* ------------------------------------------------------------------ bounds
\* How many runs of the script a behaviour holds.
MaxRuns == 2
\* How many changes other clients make to the server between runs.
MaxEnv == 1
\* How many non-2xx responses the server gives in one behaviour.
MaxFail == 2

\* --------------------------------------------------------------- pathlib
\* Path.parent: the path without its last component; the root is its own parent.
Parent(p) == IF Len(p) = 0 THEN p ELSE SubSeq(p, 1, Len(p) - 1)

\* Path.parents: every proper ancestor of the path, the root included.
Parents(p) == {SubSeq(p, 1, k) : k \in 0..(Len(p) - 1)} \ {p}

\* Path.name: the last component, "" for the root.
PathName(p) == IF Len(p) = 0 THEN << >> ELSE p[Len(p)]

\* str.rfind("."): the last position of a dot, 0 when there is none (1-based).
RFindDot(n) ==
    LET dots == {i \in 1..Len(n) : n[i] = "."}
    IN  IF dots = {} THEN 0 ELSE CHOOSE i \in dots : \A j \in dots : j <= i

\* Path.stem: the name without its last suffix.  pathlib cuts at the last
\* dot unless that dot is the first or the last character of the name.
Stem(p) ==
    LET n == PathName(p)
        i == RFindDot(n)
    IN  IF 1 < i /\ i < Len(n) THEN SubSeq(n, 1, i - 1) ELSE n

\* ------------------------------------------------------- the server's data
\* The external libraries the server lists: fixed reference data.
libraries == << [id |-> "L1", name |-> <<"o">>], [id |-> "L2", name |-> <<"t">>] >>

LibraryIds == {libraries[i].id : i \in 1..Len(libraries)}

\* An option value: Python's None, or a variable that was never assigned.
None == [some |-> FALSE, val |-> << >>]
Some(v) == [some |-> TRUE, val |-> v]

\* The {} the reconcile loop stores for a bin before it looks it up.  It is
\* never equal to an album id (album ids are 1, 2, ...).
EmptyDict == 0

\* dict helpers
Put(t, k, v) == [x \in (DOMAIN t) \cup {k} |-> IF x = k THEN v ELSE t[x]]
Without(t, k) == [x \in (DOMAIN t) \ {k} |-> t[x]]
EmptyTable == << >>

VARIABLES
    pc,                 \* where the script is: idle, fetch, classify, reconcile, save, done, exited, crashed
    runs,               \* how many runs were started
    args,               \* the parsed options of the current run
    json_file,          \* the file at the --json path: [kind, doc]
    old_json_data,      \* the document loaded from the file (None: never assigned)
    json_folder_layout, \* the loaded folder_layout table or None
    json_name_layout,   \* the loaded name_layout table or None
    assets,             \* the server's asset list
    remote,             \* the server's albums: id -> [albumName, assets]
    nextId,             \* the id the server gives the next album
    library_filter,     \* the library ids the run works on
    album_names,        \* the album names listed at the top of the run
    album_ids,          \* the album ids listed at the top of the run
    skip_paths,         \* [direct, recursive]
    folder_assets,      \* folder mode bins, in insertion order: [path, items]
    name_assets,        \* library mode bins, in insertion order: [lib_id, paths, ids]
    idx,                \* the reconcile loop's position in the bins
    json_output,        \* the table that is saved for the active layout
    log,                \* the requests of the current run and their responses
    resp,               \* the responses the server gave while the last bin was reconciled
    fails,              \* how many non-2xx responses the server has given
    envs,               \* how many changes other clients have made
    hist                \* bookkeeping about earlier runs

vars == << pc, runs, args, json_file, old_json_data, json_folder_layout,
           json_name_layout, assets, remote, nextId, library_filter, album_names,
           album_ids, skip_paths, folder_assets, name_assets, idx, json_output,
           log, resp, fails, envs, hist >>

\* ------------------------------------------------------------- option sets
A == <<"a">>
B == <<"b">>
AdotB == <<"a", ".", "b">>
Star == <<"*">>
StarDotB == <<"*", ".", "b">>
FileName == <<"f">>

Asset(i, l, folder) == [id |-> i, libraryId |-> l, originalPath |-> Append(folder, FileName)]

\* --library: absent, a library the server has, or a name it does not have.
LibraryArgs == {None, Some(<< <<"o">> >>), Some(<< <<"z">> >>)}

MkArgs(j, l, f, s, c, e) ==
    [json |-> j, library |-> l, folder_layout |-> f, skip_paths |-> s,
     clean_update |-> c, skip_existing |-> e]

\* argparse: --clean-update and --skip-existing are mutually exclusive.
ArgSets(skipSets) ==
    {MkArgs(j, l, f, s, ce[1], ce[2]) :
        j \in BOOLEAN, l \in LibraryArgs, f \in BOOLEAN, s \in skipSets,
        ce \in {<<FALSE, FALSE>>, <<TRUE, FALSE>>, <<FALSE, TRUE>>}}

\* ------------------------------------------------------------ mapping load
\* The document of a mapping file: its two top-level tables, each present or not.
EmptyDoc == [folder_layout |-> None, name_layout |-> None]

\* dict.get(key, None) on the loaded document.
DocGet(doc, key) == doc[key]

\* A plausible bug: the parent directory of a missing file is not looked at.
LoadMappingNoParentTest(a, file) ==
    IF a.json /\ file.kind = "doc"
    THEN [out |-> "ok", old |-> Some(file.doc),
          fl |-> DocGet(file.doc, "folder_layout"),
          nl |-> DocGet(file.doc, "name_layout")]
    ELSE IF a.json /\ file.kind = "malformed"
    THEN [out |-> "crash", old |-> None, fl |-> None, nl |-> None]
    ELSE [out |-> "ok", old |-> None, fl |-> None, nl |-> None]

\* Lines 134-143.  The outcome of loading the mapping: "ok" with what the
\* three globals hold, "exit" (sys.exit) or "crash" (json.load raises).
LoadMapping(a, file) ==
    IF ~a.json
    THEN [out |-> "ok", old |-> None, fl |-> None, nl |-> None]
    ELSE IF file.kind = "doc"
    THEN [out |-> "ok", old |-> Some(file.doc),
          fl |-> DocGet(file.doc, "folder_layout"),
          nl |-> DocGet(file.doc, "name_layout")]
    ELSE IF file.kind = "malformed"
    THEN [out |-> "crash", old |-> None, fl |-> None, nl |-> None]
    ELSE IF file.kind = "noparent"
    THEN [out |-> "exit", old |-> None, fl |-> None, nl |-> None]
    ELSE [out |-> "ok", old |-> None, fl |-> None, nl |-> None]

\* ----------------------------------------------------------- the classifier
\* Lines 179-184: the two partitions of --skip-paths.
SkipPartition(sp) ==
    [direct    |-> {p \in sp : Stem(p) # Star},
     recursive |-> {Parent(p) : p \in {q \in sp : Stem(q) = Star}}]

\* A plausible bug: only the exact-match partition is looked at.
SkippedDirectOnly(path, skip) == path \in skip.direct

\* Lines 275-278 (and 318-321): is an asset of this folder left out?
Skipped(path, skip) ==
    \/ path \in skip.direct
    \/ {p \in Parents(path) : p \in skip.recursive} # {}

BinIndex(bins, field, key) == {i \in 1..Len(bins) : bins[i][field] = key}

\* A plausible bug: every bin shares one set object, so an id lands in all of them.
FolderInsertAliased(bins, path, id) ==
    LET b == IF BinIndex(bins, "path", path) = {}
             THEN Append(bins, [path |-> path, items |-> {}]) ELSE bins
    IN  [i \in 1..Len(b) |-> [b[i] EXCEPT !.items = @ \cup {id}]]

\* Lines 280-285: get-or-insert the folder's bin, then add the id.
FolderInsert(bins, path, id) ==
    LET b == IF BinIndex(bins, "path", path) = {}
             THEN Append(bins, [path |-> path, items |-> {}]) ELSE bins
    IN  [i \in 1..Len(b) |->
            IF b[i].path = path THEN [b[i] EXCEPT !.items = @ \cup {id}] ELSE b[i]]

\* Lines 323-329: get-or-insert the library's bin, then add the path and the id.
NameInsert(bins, lib, path, id) ==
    LET b == IF BinIndex(bins, "lib_id", lib) = {}
             THEN Append(bins, [lib_id |-> lib, paths |-> {}, ids |-> {}]) ELSE bins
    IN  [i \in 1..Len(b) |->
            IF b[i].lib_id = lib
            THEN [b[i] EXCEPT !.paths = @ \cup {path}, !.ids = @ \cup {id}]
            ELSE b[i]]

\* Lines 270-285: the folder-layout loop over the first n assets.
RECURSIVE FolderClassify(_, _, _, _)
FolderClassify(as, n, filter, skip) ==
    IF n = 0 THEN << >>
    ELSE LET prev == FolderClassify(as, n - 1, filter, skip)
             path == Parent(as[n].originalPath)
         IN  IF as[n].libraryId \notin filter THEN prev
             ELSE IF Skipped(path, skip) THEN prev
             ELSE FolderInsert(prev, path, as[n].id)

\* Lines 313-329: the library-layout loop over the first n assets.
RECURSIVE NameClassify(_, _, _, _)
NameClassify(as, n, filter, skip) ==
    IF n = 0 THEN << >>
    ELSE LET prev == NameClassify(as, n - 1, filter, skip)
             path == Parent(as[n].originalPath)
         IN  IF as[n].libraryId \notin filter THEN prev
             ELSE IF Skipped(path, skip) THEN prev
             ELSE NameInsert(prev, as[n].libraryId, path, as[n].id)

\* ------------------------------------------------------------- the server
\* One logged request with its response.  res: the ids the server reports
\* success for (add, remove), or the members it returns (fetch).
Req(op, key, album, name, ids, ok, res) ==
    [op |-> op, key |-> key, album |-> album, name |-> name, ids |-> ids,
     ok |-> ok, res |-> res]

ListReq(op) == Req(op, << >>, 0, << >>, {}, TRUE, {})

\* What the server holds of an album, {} when it has no such album.
Members(rem, album_id) == IF album_id \in DOMAIN rem THEN rem[album_id].assets ELSE {}

\* The responses the server may give while one bin is reconciled.
Outcomes == [create : BOOLEAN, fetch : BOOLEAN, del : BOOLEAN, put : BOOLEAN]
AllGood == [create |-> TRUE, fetch |-> TRUE, del |-> TRUE, put |-> TRUE]

\* ------------------------------------------------------------ the reconciler
\* The reconciler's operators thread st = [remote, nextId, log, json_output].

\* A plausible bug: the label guard of --skip-existing is missing.
create_album_always(st, album_name, asset_ids, update_key, ok) ==
    IF ok
    THEN [st EXCEPT
            !.remote = Put(@, st.nextId, [albumName |-> album_name, assets |-> asset_ids]),
            !.nextId = @ + 1,
            !.log = Append(@, Req("create", update_key, st.nextId, album_name,
                                  asset_ids, TRUE, {})),
            !.json_output = IF args.json THEN Put(@, update_key, st.nextId) ELSE @]
    ELSE [st EXCEPT
            !.log = Append(@, Req("create", update_key, 0, album_name, asset_ids,
                                  FALSE, {}))]

\* A plausible bug: the id of the created album is not put into json_output.
create_album_forget(st, album_name, asset_ids, update_key, ok) ==
    IF args.skip_existing /\ ~args.json /\ album_name \in album_names
    THEN st
    ELSE IF ok
    THEN [st EXCEPT
            !.remote = Put(@, st.nextId, [albumName |-> album_name, assets |-> asset_ids]),
            !.nextId = @ + 1,
            !.log = Append(@, Req("create", update_key, st.nextId, album_name,
                                  asset_ids, TRUE, {}))]
    ELSE [st EXCEPT
            !.log = Append(@, Req("create", update_key, 0, album_name, asset_ids,
                                  FALSE, {}))]

\* Lines 187-203.
create_album(st, album_name, asset_ids, update_key, ok) ==
    IF args.skip_existing /\ ~args.json /\ album_name \in album_names
    THEN st
    ELSE IF ok
    THEN [st EXCEPT
            !.remote = Put(@, st.nextId, [albumName |-> album_name, assets |-> asset_ids]),
            !.nextId = @ + 1,
            !.log = Append(@, Req("create", update_key, st.nextId, album_name,
                                  asset_ids, TRUE, {})),
            !.json_output = IF args.json THEN Put(@, update_key, st.nextId) ELSE @]
    ELSE [st EXCEPT
            !.log = Append(@, Req("create", update_key, 0, album_name, asset_ids,
                                  FALSE, {}))]

\* A plausible bug: --skip-existing is not looked at before the update.
update_album_noskip(st, album_name, album_id, asset_ids, update_key, ok) ==
    IF ok /\ album_id \in DOMAIN st.remote
    THEN [st EXCEPT
            !.remote = [@ EXCEPT ![album_id].assets = @ \cup asset_ids],
            !.log = Append(@, Req("add", update_key, album_id, album_name, asset_ids,
                                  TRUE, asset_ids \ Members(st.remote, album_id)))]
    ELSE [st EXCEPT
            !.log = Append(@, Req("add", update_key, album_id, album_name, asset_ids,
                                  FALSE, {}))]

\* Lines 206-233.
update_album(st, album_name, album_id, asset_ids, update_key, ok) ==
    IF args.skip_existing /\ album_id \in album_ids
    THEN st
    ELSE IF ok /\ album_id \in DOMAIN st.remote
    THEN [st EXCEPT
            !.remote = [@ EXCEPT ![album_id].assets = @ \cup asset_ids],
            !.log = Append(@, Req("add", update_key, album_id, album_name, asset_ids,
                                  TRUE, asset_ids \ Members(st.remote, album_id)))]
    ELSE [st EXCEPT
            !.log = Append(@, Req("add", update_key, album_id, album_name, asset_ids,
                                  FALSE, {}))]

\* A plausible bug: the difference is taken the wrong way round.
RemovalAssetsReversed(members, asset_ids) == asset_ids \ members

\* A plausible bug: the difference is not taken, the whole album is cleared.
RemovalAssetsAll(members, asset_ids) == members

\* Lines 240-241: the ids clean mode asks the server to remove.
RemovalAssets(members, asset_ids) == members \ asset_ids

\* Lines 236-259.
clean_album(st, album_name, album_id, asset_ids, update_key, okFetch, okDel) ==
    IF ~(okFetch /\ album_id \in DOMAIN st.remote)
    THEN [st EXCEPT
            !.log = Append(@, Req("fetch", update_key, album_id, album_name, {},
                                  FALSE, {}))]
    ELSE LET members == Members(st.remote, album_id)
             removal_assets == RemovalAssets(members, asset_ids)
             fetched == Append(st.log, Req("fetch", update_key, album_id, album_name,
                                           {}, TRUE, members))
         IN  IF okDel
             THEN [st EXCEPT
                    !.remote = [@ EXCEPT ![album_id].assets = @ \ removal_assets],
                    !.log = Append(fetched, Req("remove", update_key, album_id,
                                    album_name, removal_assets, TRUE,
                                    removal_assets \cap members))]
             ELSE [st EXCEPT
                    !.log = Append(fetched, Req("remove", update_key, album_id,
                                    album_name, removal_assets, FALSE, {}))]

\* A plausible bug: the persisted id is trusted without looking at the album list.
BoundTrusting(table, update_key) ==
    table.some /\ update_key \in DOMAIN table.val

\* Lines 293-299 (337-343): the bin has a persisted album id that the server
\* still lists.
Bound(table, update_key) ==
    /\ table.some
    /\ update_key \in DOMAIN table.val
    /\ table.val[update_key] \in album_ids

\* A plausible bug: the update is sent before the album is cleaned.
ReconcileBinUpdateFirst(table, st, album_name, asset_ids, update_key, o) ==
    LET st0 == [st EXCEPT !.json_output = Put(@, update_key, EmptyDict)]
    IN  IF Bound(table, update_key)
        THEN LET album_id == table.val[update_key]
                 st1 == [st0 EXCEPT !.json_output = Put(@, update_key, album_id)]
                 st2 == update_album(st1, album_name, album_id, asset_ids, update_key,
                                     o.put)
             IN  IF args.clean_update
                 THEN clean_album(st2, album_name, album_id, asset_ids, update_key,
                                  o.fetch, o.del)
                 ELSE st2
        ELSE create_album(st0, album_name, asset_ids, update_key, o.create)

\* A plausible bug: once a request of the run has failed, the bins that
\* follow are left alone.
ReconcileBinAbort(table, st, album_name, asset_ids, update_key, o) ==
    LET st0 == [st EXCEPT !.json_output = Put(@, update_key, EmptyDict)]
    IN  IF \E i \in 1..Len(st.log) : ~st.log[i].ok
        THEN st
        ELSE IF Bound(table, update_key)
        THEN LET album_id == table.val[update_key]
                 st1 == IF args.clean_update
                        THEN clean_album(st0, album_name, album_id, asset_ids,
                                         update_key, o.fetch, o.del)
                        ELSE st0
                 st2 == [st1 EXCEPT !.json_output = Put(@, update_key, album_id)]
             IN  update_album(st2, album_name, album_id, asset_ids, update_key, o.put)
        ELSE create_album(st0, album_name, asset_ids, update_key, o.create)

\* Lines 288-306 (332-350): one pass of the reconcile loop's body.
ReconcileBin(table, st, album_name, asset_ids, update_key, o) ==
    LET st0 == [st EXCEPT !.json_output = Put(@, update_key, EmptyDict)]
    IN  IF Bound(table, update_key)
        THEN LET album_id == table.val[update_key]
                 st1 == IF args.clean_update
                        THEN clean_album(st0, album_name, album_id, asset_ids,
                                         update_key, o.fetch, o.del)
                        ELSE st0
                 st2 == [st1 EXCEPT !.json_output = Put(@, update_key, album_id)]
             IN  update_album(st2, album_name, album_id, asset_ids, update_key, o.put)
        ELSE create_album(st0, album_name, asset_ids, update_key, o.create)

\* Line 332: the display name of a library, "" when the server lists none.
LibraryName(lib_id) ==
    LET m == {i \in 1..Len(libraries) : libraries[i].id = lib_id}
    IN  IF m = {} THEN << >> ELSE libraries[CHOOSE i \in m : \A j \in m : i <= j].name

\* The bins of the active layout as [key, name, ids], in loop order
\* (lines 287-290 and 331-334).
Bins ==
    IF args.folder_layout
    THEN [i \in 1..Len(folder_assets) |->
            [key |-> folder_assets[i].path, name |-> Stem(folder_assets[i].path),
             ids |-> folder_assets[i].items]]
    ELSE [i \in 1..Len(name_assets) |->
            [key |-> name_assets[i].lib_id, name |-> LibraryName(name_assets[i].lib_id),
             ids |-> name_assets[i].ids]]

\* A plausible bug: json_output always starts empty.
InitialOutputEmpty(table) == EmptyTable

\* Lines 262-268 (and 310-311): json_output starts as a copy of the loaded
\* table of the active layout, or empty when there is none.
InitialOutput(table) == IF table.some THEN table.val ELSE EmptyTable

\* The loaded table of the active layout.
ActiveTable == IF args.folder_layout THEN json_folder_layout ELSE json_name_layout

ActiveKey == IF args.folder_layout THEN "folder_layout" ELSE "name_layout"
OtherKey == IF args.folder_layout THEN "name_layout" ELSE "folder_layout"

\* A plausible bug: the loaded document is written back without this run's table.
SavedDocStale(old, key, output) == IF old.some THEN old.val ELSE EmptyDoc

\* A plausible bug: the document is rebuilt from scratch on every save.
SavedDocFresh(old, key, output) == [EmptyDoc EXCEPT ![key] = Some(output)]

\* Lines 353-361: the document that is written.
SavedDoc(old, key, output) ==
    LET json_data == IF old.some THEN old.val ELSE EmptyDoc
    IN  [json_data EXCEPT ![key] = Some(output)]

\* ------------------------------------------------------------------ inputs
\* The assets and options of the full runs.  The first asset lies in /a;
\* the second lies in /a, below it, or in /a.b, in either library, or in
\* /b/a in the second library.
MainFolders == {<<A>>, <<A, B>>, <<AdotB>>}
MainSkipSets == {{}, {<<A, Star>>}}
\* A run that names an unknown library ends before any other option than
\* --json is read, so the other options are not varied for it.
MainArgs ==
    {a \in ArgSets(MainSkipSets) :
        a.library = Some(<< <<"z">> >>) =>
            /\ ~a.folder_layout /\ ~a.clean_update /\ ~a.skip_existing
            /\ a.skip_paths = {}}
MainAssets ==
    {<<Asset(1, "L1", <<A>>), Asset(2, l2, f2)>> : l2 \in LibraryIds, f2 \in MainFolders}
    \cup {<<Asset(1, "L1", <<A>>), Asset(2, "L2", <<B, A>>)>>}

\* The inputs of the classifier on its own: up to MaxAssets assets.
MaxAssets == 2
ClassifyFolders == {<< >>, <<A>>, <<A, B>>, <<A, B, A>>, <<B>>, <<A, AdotB>>}
ClassifySkipSets == SUBSET {<<A>>, <<A, Star>>, <<A, B>>, <<A, StarDotB>>}
ClassifyArgs ==
    {a \in ArgSets(ClassifySkipSets) : ~a.json /\ ~a.clean_update /\ ~a.skip_existing}
ClassifyAssets ==
    UNION {{[i \in 1..n |-> Asset(i, c[i][1], c[i][2])] :
                c \in [1..n -> LibraryIds \X ClassifyFolders]} : n \in 1..MaxAssets}

AssetIds == {assets[i].id : i \in 1..Len(assets)}
\* An asset the server has outside the external libraries.
StrayAsset == Len(assets) + 1

NoCreated == [folder_layout |-> {}, name_layout |-> {}]
NoHist == [idem |-> FALSE, touched |-> FALSE, created |-> NoCreated,
           loaded |-> [kind |-> "absent", doc |-> EmptyDoc],
           remote0 |-> EmptyTable, written |-> FALSE, rewritten |-> FALSE]

AllOk(l) == \A i \in 1..Len(l) : l[i].ok
Failed(l) == Cardinality({i \in 1..Len(l) : ~l[i].ok})
Resting == {"idle", "done", "exited", "crashed"}

\* ------------------------------------------------------------------- Init
InitRest ==
    /\ runs = 0
    /\ old_json_data = None
    /\ json_folder_layout = None
    /\ json_name_layout = None
    /\ remote = EmptyTable
    /\ nextId = 1
    /\ library_filter = {}
    /\ album_names = {}
    /\ album_ids = {}
    /\ skip_paths = [direct |-> {}, recursive |-> {}]
    /\ folder_assets = << >>
    /\ name_assets = << >>
    /\ idx = 1
    /\ json_output = EmptyTable
    /\ log = << >>
    /\ resp = AllGood
    /\ fails = 0
    /\ envs = 0
    /\ hist = NoHist

\* Before the first run: no album on the server, and at the --json path no
\* file yet (with or without its directory) or a file that is not JSON.
Init ==
    /\ pc = "idle"
    /\ args = MkArgs(FALSE, None, FALSE, {}, FALSE, FALSE)
    /\ json_file \in {[kind |-> k, doc |-> EmptyDoc] : k \in {"absent", "noparent", "malformed"}}
    /\ assets \in MainAssets
    /\ InitRest

\* The classifier on its own: the options are parsed, the lists are next.
InitClassify ==
    /\ pc = "fetch"
    /\ args \in ClassifyArgs
    /\ json_file = [kind |-> "absent", doc |-> EmptyDoc]
    /\ assets \in ClassifyAssets
    /\ InitRest

\* ---------------------------------------------------------------- actions
\* Lines 113-143: the options are parsed and the mapping file is loaded.
StartRun ==
    /\ pc \in Resting
    /\ runs < MaxRuns
    /\ \E a \in MainArgs :
        LET l == LoadMapping(a, json_file) IN
        /\ args' = a
        /\ pc' = CASE l.out = "ok" -> "fetch"
                   [] l.out = "exit" -> "exited"
                   [] OTHER -> "crashed"
        /\ old_json_data' = l.old
        /\ json_folder_layout' = l.fl
        /\ json_name_layout' = l.nl
        /\ hist' = [hist EXCEPT
                        !.idem = /\ pc = "done" /\ a = args /\ args.json
                                 /\ AllOk(log) /\ ~hist.touched,
                        !.touched = FALSE,
                        !.loaded = json_file,
                        !.remote0 = remote,
                        !.written = FALSE,
                        !.rewritten = FALSE]
    /\ runs' = runs + 1
    /\ log' = << >>
    /\ idx' = 1
    /\ json_output' = EmptyTable
    /\ folder_assets' = << >>
    /\ name_assets' = << >>
    /\ library_filter' = {}
    /\ album_names' = {}
    /\ album_ids' = {}
    /\ skip_paths' = [direct |-> {}, recursive |-> {}]
    /\ resp' = AllGood
    /\ UNCHANGED << json_file, assets, remote, nextId, fails, envs >>

\* Lines 156-169: the library ids the run works on, or "exit" when a named
\* library is unknown.
LibraryFilter(a) ==
    LET library_names == {libraries[i].name : i \in 1..Len(libraries)}
    IN  IF ~a.library.some
        THEN [out |-> "ok", ids |-> LibraryIds]
        ELSE IF \E k \in 1..Len(a.library.val) : a.library.val[k] \notin library_names
        THEN [out |-> "exit", ids |-> {}]
        ELSE [out |-> "ok",
              ids |-> {libraries[i].id : i \in {j \in 1..Len(libraries) :
                          \E k \in 1..Len(a.library.val) :
                              libraries[j].name = a.library.val[k]}}]

\* Lines 152-184: the three lists are fetched, the filter and the skip
\* partitions are built.
FetchLists ==
    /\ pc = "fetch"
    /\ LET f == LibraryFilter(args) IN
        IF f.out = "exit"
        THEN /\ pc' = "exited"
             /\ log' = Append(log, ListReq("list_libraries"))
             /\ UNCHANGED << library_filter, album_names, album_ids, skip_paths >>
        ELSE /\ pc' = "classify"
             /\ log' = log \o << ListReq("list_libraries"), ListReq("list_albums"),
                                 ListReq("list_assets") >>
             /\ library_filter' = f.ids
             /\ album_names' = {remote[i].albumName : i \in DOMAIN remote}
             /\ album_ids' = DOMAIN remote
             /\ skip_paths' = SkipPartition(args.skip_paths)
    /\ UNCHANGED << runs, args, json_file, old_json_data, json_folder_layout,
                    json_name_layout, assets, remote, nextId, folder_assets,
                    name_assets, idx, json_output, resp, fails, envs, hist >>

\* Lines 262-285 and 308-329: json_output starts as a copy of the loaded
\* table of the active layout, and the assets are put into bins.
Classify ==
    /\ pc = "classify"
    /\ pc' = "reconcile"
    /\ json_output' = InitialOutput(ActiveTable)
    /\ IF args.folder_layout
       THEN /\ folder_assets' = FolderClassify(assets, Len(assets), library_filter, skip_paths)
            /\ name_assets' = << >>
       ELSE /\ name_assets' = NameClassify(assets, Len(assets), library_filter, skip_paths)
            /\ folder_assets' = << >>
    /\ idx' = 1
    /\ UNCHANGED << runs, args, json_file, old_json_data, json_folder_layout,
                    json_name_layout, assets, remote, nextId, library_filter,
                    album_names, album_ids, skip_paths, log, resp, fails, envs, hist >>

\* The successful create requests among the log entries after position n.
NewCreated(l, n) ==
    {<<l[i].key, l[i].album>> : i \in {j \in (n + 1)..Len(l) : l[j].op = "create" /\ l[j].ok}}

\* Lines 287-306 and 331-350: the loop body for the next bin, with the
\* responses the server gives.
ProcessBin ==
    /\ pc = "reconcile"
    /\ idx <= Len(Bins)
    /\ \E o \in Outcomes :
        LET b == Bins[idx]
            st == [remote |-> remote, nextId |-> nextId, log |-> log,
                   json_output |-> json_output]
            r == ReconcileBin(ActiveTable, st, b.name, b.ids, b.key, o)
            asked == {r.log[i].op : i \in (Len(log) + 1)..Len(r.log)}
        IN  \* a response is only drawn for a request that is made
            /\ o.create \/ "create" \in asked
            /\ o.fetch \/ "fetch" \in asked
            /\ o.del \/ "remove" \in asked
            /\ o.put \/ "add" \in asked
            /\ Failed(r.log) - Failed(log) = Cardinality({f \in DOMAIN o : ~o[f]})
            /\ fails + Failed(r.log) - Failed(log) <= MaxFail
            /\ fails' = fails + Failed(r.log) - Failed(log)
            /\ remote' = r.remote
            /\ nextId' = r.nextId
            /\ log' = r.log
            /\ json_output' = r.json_output
            /\ resp' = o
            /\ hist' = IF args.json
                       THEN [hist EXCEPT !.created[ActiveKey] = @ \cup NewCreated(r.log, Len(log))]
                       ELSE hist
    /\ idx' = idx + 1
    /\ UNCHANGED << pc, runs, args, json_file, old_json_data, json_folder_layout,
                    json_name_layout, assets, library_filter, album_names, album_ids,
                    skip_paths, folder_assets, name_assets, envs >>

\* Lines 352-367: after the last bin the document is written, when --json is given.
SaveMapping ==
    /\ pc = "reconcile"
    /\ idx > Len(Bins)
    /\ pc' = "done"
    /\ json_file' = IF args.json
                    THEN [kind |-> "doc", doc |-> SavedDoc(old_json_data, ActiveKey, json_output)]
                    ELSE json_file
    /\ hist' = IF args.json
               THEN [hist EXCEPT !.written = TRUE, !.rewritten = hist.written]
               ELSE hist
    /\ UNCHANGED << runs, args, old_json_data, json_folder_layout, json_name_layout,
                    assets, remote, nextId, library_filter, album_names, album_ids,
                    skip_paths, folder_assets, name_assets, idx, json_output, log,
                    resp, fails, envs >>

\* Between two runs another client deletes an album.
DeleteAlbum ==
    /\ pc \in Resting
    /\ runs < MaxRuns
    /\ envs < MaxEnv
    /\ \E id \in DOMAIN remote : remote' = Without(remote, id)
    /\ envs' = envs + 1
    /\ hist' = [hist EXCEPT !.touched = TRUE]
    /\ UNCHANGED << pc, runs, args, json_file, old_json_data, json_folder_layout,
                    json_name_layout, assets, nextId, library_filter, album_names,
                    album_ids, skip_paths, folder_assets, name_assets, idx,
                    json_output, log, resp, fails >>

\* Between two runs another client adds an asset to an album or takes one out.
EditAlbum ==
    /\ pc \in Resting
    /\ runs < MaxRuns
    /\ envs < MaxEnv
    /\ \E id \in DOMAIN remote, x \in AssetIds \cup {StrayAsset} :
        remote' = [remote EXCEPT ![id].assets =
                        IF x \in @ THEN @ \ {x} ELSE @ \cup {x}]
    /\ envs' = envs + 1
    /\ hist' = [hist EXCEPT !.touched = TRUE]
    /\ UNCHANGED << pc, runs, args, json_file, old_json_data, json_folder_layout,
                    json_name_layout, assets, nextId, library_filter, album_names,
                    album_ids, skip_paths, folder_assets, name_assets, idx,
                    json_output, log, resp, fails >>

Next ==
    \/ StartRun
    \/ FetchLists
    \/ Classify
    \/ ProcessBin
    \/ SaveMapping
    \/ DeleteAlbum
    \/ EditAlbum

Spec == Init /\ [][Next]_vars

NextClassify == FetchLists \/ Classify

SpecClassify == InitClassify /\ [][NextClassify]_vars

\* ------------------------------------------------------------------ claims
LogIdx == 1..Len(log)
BinIdx == 1..Len(Bins)

\* The asset ids that the classifier put into some bin.
Binned ==
    UNION ({folder_assets[i].items : i \in 1..Len(folder_assets)}
           \cup {name_assets[i].ids : i \in 1..Len(name_assets)})

Classified == pc = "reconcile"
Folder(i) == Parent(assets[i].originalPath)
\* Is q a proper ancestor of the folder p?
IsAncestor(q, p) == Len(q) < Len(p) /\ SubSeq(p, 1, Len(q)) = q

\* C1: a run that repeats a fully successful persisted run, with the same
\* options and nothing changed in between, creates no album, and each of
\* its add-members and remove-members requests changes no album member.
C1_Idempotent ==
    hist.idem =>
        \A i \in LogIdx :
            /\ log[i].op # "create"
            /\ log[i].op \in {"add", "remove"} => log[i].res = {}

C1_Witness ==
    /\ hist.idem
    /\ pc = "done"
    /\ \E i \in LogIdx : log[i].op = "add" /\ log[i].ok /\ log[i].ids # {}

\* C2: a persisted run sends no create-album request for a bin key for which
\* an earlier persisted run of the same layout created an album that the
\* server still lists.
C2_NoDuplicateAlbum ==
    args.json =>
        \A i \in LogIdx :
            log[i].op = "create" =>
                ~ \E c \in hist.created[ActiveKey] :
                    c[1] = log[i].key /\ c[2] \in album_ids

C2_Witness ==
    /\ args.json
    /\ pc = "done"
    /\ \E i \in LogIdx :
        /\ log[i].op = "add"
        /\ \E c \in hist.created[ActiveKey] :
            c[1] = log[i].key /\ c[2] \in album_ids /\ c[2] = log[i].album
    /\ \E i \in LogIdx : ~log[i].ok

\* C3: no asset whose folder is an exact-skip entry, or whose folder has an
\* ancestor that is a recursive-skip entry, is in a bin (both layouts).
C3_SkippedNotBinned ==
    Classified =>
        \A i \in 1..Len(assets) :
            (\/ Folder(i) \in skip_paths.direct
             \/ \E q \in skip_paths.recursive : IsAncestor(q, Folder(i)))
            => assets[i].id \notin Binned

C3_Witness ==
    /\ Classified
    /\ \E i \in 1..Len(assets) :
        /\ Folder(i) \notin skip_paths.direct
        /\ \E q \in skip_paths.recursive : IsAncestor(q, Folder(i))
        /\ assets[i].libraryId \in library_filter
    /\ Binned # {}

\* C4: for a skip path "P/*", no asset whose folder is P itself or lies
\* below P is in a bin.
C4_RecursiveCoversFolder ==
    Classified =>
        \A i \in 1..Len(assets) :
            (\E q \in skip_paths.recursive : q = Folder(i) \/ IsAncestor(q, Folder(i)))
            => assets[i].id \notin Binned

\* C5: after a failed create-album request the bin's key is in neither the
\* output mapping nor the table that is saved.
C5_FailedCreateUnmapped ==
    \A i \in LogIdx :
        (log[i].op = "create" /\ ~log[i].ok) =>
            /\ log[i].key \notin DOMAIN json_output
            /\ (pc = "done" /\ args.json) =>
                    log[i].key \notin DOMAIN json_file.doc[ActiveKey].val

\* The persisted entry of the key names an album the server does not list.
Stale(table, key) ==
    /\ table.some
    /\ key \in DOMAIN table.val
    /\ table.val[key] # EmptyDict
    /\ table.val[key] \notin album_ids

Entry(t, key) == IF key \in DOMAIN t THEN Some(t[key]) ELSE None

\* C6: a bin whose persisted album id the server no longer lists gets the
\* requests and the output-mapping entry that it gets, under the same
\* responses, when the persisted table has no entry for its key.
C6_StaleIsAbsent ==
    [][(pc = "reconcile" /\ idx <= Len(Bins) /\ idx' = idx + 1
        /\ Stale(ActiveTable, Bins[idx].key))
       => LET b == Bins[idx]
              st == [remote |-> remote, nextId |-> nextId, log |-> log,
                     json_output |-> Without(json_output, b.key)]
              r == ReconcileBin(Some(Without(ActiveTable.val, b.key)), st, b.name,
                                b.ids, b.key, resp')
          IN  /\ log' = r.log
              /\ Entry(json_output', b.key) = Entry(r.json_output, b.key)]_vars

C6_Witness ==
    /\ pc = "reconcile"
    /\ idx > 1
    /\ Stale(ActiveTable, Bins[idx - 1].key)
    /\ \E i \in LogIdx : log[i].op = "create" /\ log[i].key = Bins[idx - 1].key

\* C7: no remove-members request names an asset of the bin it is sent for.
C7_CleanKeepsWanted ==
    \A i \in LogIdx :
        log[i].op = "remove" =>
            \A j \in BinIdx : Bins[j].key = log[i].key => log[i].ids \cap Bins[j].ids = {}

C7_Witness ==
    \E i \in LogIdx :
        /\ log[i].op = "remove"
        /\ log[i].ids # {}
        /\ \E j \in BinIdx :
            /\ Bins[j].key = log[i].key
            /\ Members(remote, log[i].album) \cap Bins[j].ids # {}

\* C8: a saved document holds the table of the other layout as it was loaded.
C8_OtherTableKept ==
    (pc = "done" /\ args.json) => json_file.doc[OtherKey] = hist.loaded.doc[OtherKey]

C8_Witness ==
    /\ pc = "done"
    /\ args.json
    /\ hist.loaded.doc[OtherKey].some
    /\ DOMAIN hist.loaded.doc[OtherKey].val # {}
    /\ DOMAIN json_output # {}
    /\ fails > 0

\* C9: a run whose mapping file is absent (in an existing directory) or
\* malformed does not end in an error.
C9_LoadNeverFails ==
    (args.json /\ hist.loaded.kind \in {"absent", "malformed"}) => pc # "crashed"

\* C10: no asset id is in the member sets of two bins (both layouts).
C10_BinsDisjoint ==
    Classified =>
        /\ \A i, j \in 1..Len(folder_assets) :
            i # j => folder_assets[i].items \cap folder_assets[j].items = {}
        /\ \A i, j \in 1..Len(name_assets) :
            i # j => name_assets[i].ids \cap name_assets[j].ids = {}

C10_Witness ==
    /\ Classified
    /\ Len(folder_assets) = 2
    /\ folder_assets[1].items # {}
    /\ folder_assets[2].items # {}

\* The requests that are sent for a bin.
BinOps == {"create", "fetch", "add", "remove"}
\* The positions in the log of the requests sent for the bin of this key.
KeyIdx(key) == {i \in LogIdx : log[i].op \in BinOps /\ log[i].key = key}
\* The reconcile loop has started; the bins before idx have been processed.
InRun == pc \in {"reconcile", "done"}
Processed == 1..(idx - 1)

\* C11: a run whose --json file is missing in a directory that is missing
\* too ends at once: no request is sent and no file is written.
C11_FatalBeforeTraffic ==
    (args.json /\ hist.loaded.kind = "noparent") =>
        /\ pc = "exited"
        /\ log = << >>
        /\ ~hist.written
        /\ json_file = hist.loaded

C11_Witness ==
    /\ args.json
    /\ hist.loaded.kind = "noparent"
    /\ pc = "exited"
    /\ runs = MaxRuns
    /\ DOMAIN remote # {}

\* C12: a remove-members request is only sent with a non-empty id list.
C12_RemoveOnlyNonEmpty ==
    \A i \in LogIdx : log[i].op = "remove" => log[i].ids # {}

\* C13: for a bound bin in clean mode exactly one add-members request is
\* sent, with the bin's whole member set, after the fetch (and the removal)
\* of the clean step; after a failed fetch no remove-members request is sent.
C13_UpdateFollowsClean ==
    (InRun /\ args.clean_update) =>
        \A j \in Processed :
            Bound(ActiveTable, Bins[j].key) =>
                LET e == KeyIdx(Bins[j].key)
                    adds == {i \in e : log[i].op = "add"}
                IN  /\ Cardinality(adds) = 1
                    /\ \A i \in adds :
                        /\ log[i].ids = Bins[j].ids
                        /\ \A k \in e : k <= i
                        /\ \E f \in e : log[f].op = "fetch" /\ f < i
                    /\ (\E f \in e : log[f].op = "fetch" /\ ~log[f].ok)
                        => ~ \E k \in e : log[k].op = "remove"

C13_Witness ==
    /\ InRun
    /\ args.clean_update
    /\ \E j \in Processed :
        /\ Bound(ActiveTable, Bins[j].key)
        /\ \E f \in KeyIdx(Bins[j].key) : log[f].op = "fetch" /\ ~log[f].ok
        /\ \E i \in KeyIdx(Bins[j].key) : log[i].op = "add" /\ log[i].ok

\* C14: with --skip-existing no request is sent for a bound bin, and its key
\* keeps its album id in the output mapping and in the saved table.
C14_BoundSkipped ==
    (InRun /\ args.skip_existing) =>
        \A j \in Processed :
            Bound(ActiveTable, Bins[j].key) =>
                /\ KeyIdx(Bins[j].key) = {}
                /\ Entry(json_output, Bins[j].key) = Some(ActiveTable.val[Bins[j].key])
                /\ pc = "done" =>
                    Entry(json_file.doc[ActiveKey].val, Bins[j].key)
                        = Some(ActiveTable.val[Bins[j].key])

C14_Witness ==
    /\ pc = "done"
    /\ args.skip_existing
    /\ \E j \in Processed :
        /\ Bound(ActiveTable, Bins[j].key)
        /\ Members(remote, ActiveTable.val[Bins[j].key]) # Bins[j].ids

\* C15: with --skip-existing and no --json, no request is sent for a bin
\* whose label is the name of an album listed at the top of the run, and
\* exactly one request, a create-album request, is sent for any other bin.
C15_LabelGuard ==
    (InRun /\ args.skip_existing /\ ~args.json) =>
        \A j \in Processed :
            IF Bins[j].name \in album_names
            THEN KeyIdx(Bins[j].key) = {}
            ELSE /\ Cardinality(KeyIdx(Bins[j].key)) = 1
                 /\ \A i \in KeyIdx(Bins[j].key) : log[i].op = "create"

C15_Witness ==
    /\ pc = "done"
    /\ args.skip_existing
    /\ ~args.json
    /\ \E j \in Processed : Bins[j].name \in album_names
    /\ \E j \in Processed : Bins[j].name \notin album_names

\* What a finished or running run shows of the loop and of the save.
C16_LoopAndSave ==
    /\ pc \in {"fetch", "classify", "reconcile"} => ~hist.written
    /\ pc = "done" =>
        /\ idx = Len(Bins) + 1
        /\ \A j \in BinIdx :
            /\ Bins[j].key \in DOMAIN json_output
            /\ Cardinality({i \in KeyIdx(Bins[j].key) : log[i].op \in {"create", "add"}}) <= 1
        /\ args.json => hist.written /\ ~hist.rewritten /\ json_file.kind = "doc"

\* C16: whatever requests fail, every bin is processed once, the requests
\* and the output-mapping entry of a bin are those it gets, under its own
\* responses, when it is the first bin of the run, and with --json the
\* file is written once, after the last bin.
C16_FailuresNeverStop ==
    [][/\ C16_LoopAndSave'
       /\ (pc = "reconcile" /\ idx <= Len(Bins)) =>
            /\ pc' = "reconcile"
            /\ idx' = idx + 1
            /\ LET b == Bins[idx]
                   st == [remote |-> hist.remote0, nextId |-> nextId, log |-> << >>,
                          json_output |-> InitialOutput(ActiveTable)]
                   r == ReconcileBin(ActiveTable, st, b.name, b.ids, b.key, resp')
               IN  /\ SubSeq(log', Len(log) + 1, Len(log')) = r.log
                   /\ Entry(json_output', b.key) = Entry(r.json_output, b.key)]_vars

C16_Witness ==
    /\ pc = "done"
    /\ args.json
    /\ Len(Bins) = 2
    /\ \E i \in KeyIdx(Bins[1].key) : ~log[i].ok
    /\ \E i \in KeyIdx(Bins[2].key) : log[i].ok

\* C17: in folder layout the album name of a create-album request is the
\* whole last component of the folder path, and its ids are the bin's.
C17_FolderLabel ==
    args.folder_layout =>
        \A i \in LogIdx :
            log[i].op = "create" =>
                /\ log[i].name = PathName(log[i].key)
                /\ \E j \in BinIdx : Bins[j].key = log[i].key /\ Bins[j].ids = log[i].ids

\* C18: after the fetch, the removal and the addition for a bound bin in
\* clean mode have all succeeded, the album holds exactly the bin's assets.
C18_CleanConverges ==
    (InRun /\ args.clean_update /\ ~args.skip_existing /\ ~hist.touched) =>
        \A j \in Processed :
            (/\ Bound(ActiveTable, Bins[j].key)
             /\ \A i \in KeyIdx(Bins[j].key) : log[i].ok)
            => Members(remote, ActiveTable.val[Bins[j].key]) = Bins[j].ids

C18_Witness ==
    /\ InRun
    /\ args.clean_update
    /\ ~hist.touched
    /\ \E j \in Processed :
        /\ Bound(ActiveTable, Bins[j].key)
        /\ \A i \in KeyIdx(Bins[j].key) : log[i].ok
        /\ \E i \in KeyIdx(Bins[j].key) :
            /\ log[i].op = "fetch"
            /\ log[i].res \ Bins[j].ids # {}
            /\ Bins[j].ids \ log[i].res # {}

\* C19: with --skip-existing and no --json, no two create-album requests
\* of a run carry the same album name.
C19_NoSameLabelTwice ==
    (args.skip_existing /\ ~args.json) =>
        \A i, j \in LogIdx :
            (i < j /\ log[i].op = "create" /\ log[j].op = "create")
            => log[i].name # log[j].name

\* C20: the saved table of the active layout holds every loaded entry whose
\* key is not a bin of the run, with its loaded value.
C20_AbsentBinsKept ==
    (pc = "done" /\ args.json /\ hist.loaded.kind = "doc"
        /\ hist.loaded.doc[ActiveKey].some) =>
        LET old == hist.loaded.doc[ActiveKey].val
            new == json_file.doc[ActiveKey].val
        IN  \A k \in (DOMAIN old) \ {Bins[j].key : j \in BinIdx} :
                Entry(new, k) = Some(old[k])

C20_Witness ==
    /\ pc = "done"
    /\ args.json
    /\ hist.loaded.kind = "doc"
    /\ hist.loaded.doc[ActiveKey].some
    /\ Len(Bins) > 0
    /\ \E k \in (DOMAIN hist.loaded.doc[ActiveKey].val) \ {Bins[j].key : j \in BinIdx} :
        hist.loaded.doc[ActiveKey].val[k] # EmptyDict

====
